---- MODULE Spec2Model ----
(***************************************************************************)
(* Buyouts_Business_Rules_Forecast.py as a state machine: the script is a  *)
(* batch run, one action per section of the script, in script order.       *)
(*                                                                         *)
(* Conventions.                                                            *)
(*  - A calendar month is the integer 12*(year-2024) + (month-1).          *)
(*  - A timestamp is 2*month + tod, tod = 0 for midnight of day 1 and      *)
(*    tod = 1 for any later time of day 1 (RUN_DATE keeps its time of day  *)
(*    through replace(day=1) and relativedelta).                           *)
(*  - A float is held in halves (the integer 2*x): medians of integers     *)
(*    are exact in halves. NaN is the record NaN below.                    *)
(*  - The raw table has one row per (SKU, month) and one Description per   *)
(*    SKU; the lead-time table has at most one row per SKU.                *)
(***************************************************************************)
EXTENDS Integers, Sequences, FiniteSets, TLC

\* ------------------------------------------------------------ bounds
\* number of months at the end of 2024 for which raw may hold rows
TrailLen == 4
\* longest 2024 series drawn for the statistics rows of SpecClassify
MaxTrail == 11
\* number of months at the end of 2024 that are columns of the adjuster's
\* wide sheet
AdjTrail == 2

\* ------------------------------------------------------------ configuration
HORIZON == 20
\* CONT_RATIO = 0.80, in percent
CONT_RATIO == 80
MIN_HITS == 4
CAP_MULT == 1

SKUs == {"A", "B"}
\* SKU keys in sort order (groupby and sort_values order rows by SKU)
SkuOrder == <<"A", "B">>
Qtys == {0, 3, 20}
\* raw may hold rows for the last TrailLen months of 2024 and January 2025
Months == (12 - TrailLen)..12
\* RUN_DATE: in December 2024 or in February 2025
RunMonths == {11, 13}
RunDates == [month : RunMonths, tod : {0, 1}]
\* Leadtime Level in days; 45 days are 1.5 months exactly
LeadLevels == {45}

YearOf(m) == 2024 + (m \div 12)
Date(m) == 2 * m
AddMonths(ts, k) == ts + 2 * k

NaN == [nan |-> TRUE, v |-> 0]
Num(x) == [nan |-> FALSE, v |-> x]
fillna0(x) == IF x.nan THEN Num(0) ELSE x

Max2(a, b) == IF a >= b THEN a ELSE b
Min2(a, b) == IF a <= b THEN a ELSE b

\* pc is the section the script is at; table is stats as rebound by the
\* merge with all_skus; outcome records how the forecasting capability ended
\* in each call of safe_forecast; the others are the script's globals
VARIABLES pc, RUN_DATE, raw, df_freq, first_run, hist, stats, lead, wins_med,
          one_off_skus, table, cat_map, outcome, fc_ets, fc_tsb, grid

\* the globals of Buyouts_Forecast_Adjuster.py (pc, RUN_DATE, first_run and
\* hist are globals of both scripts)
VARIABLES df, seg, fc_df, ly_tbl, Med12, long

adjVars == <<df, seg, fc_df, ly_tbl, Med12, long>>

vars == <<pc, RUN_DATE, raw, df_freq, first_run, hist, stats, lead, wins_med,
          one_off_skus, table, cat_map, outcome, fc_ets, fc_tsb, grid, adjVars>>

\* the adjuster has not run
AdjusterIdle ==
    /\ df = <<>>
    /\ seg = <<>>
    /\ fc_df = <<>>
    /\ ly_tbl = <<>>
    /\ Med12 = <<>>
    /\ long = <<>>

\* ------------------------------------------------------------ inputs
\* raw: for every SKU the months that have a row, with the row's Hist_Value.
\* SKU B is a steady seller with a row of 20 in every month of the window.
SeriesOver(S) == [S -> Qtys]
Histories == UNION {SeriesOver(S) : S \in SUBSET Months}
BHistory == [m \in Months |-> 20]
RawTables == {[s \in SKUs |-> IF s = "A" THEN h ELSE BHistory] : h \in Histories}

\* lead-time table: the SKUs that have a row, with their Leadtime Level;
\* at most one SKU has none
LeadTables == UNION {[S -> LeadLevels] : S \in (SUBSET SKUs) \ {{}}}

\* ------------------------------------------------------------ series helpers
\* the months of S in date order
RECURSIVE SortedMonths(_)
SortedMonths(S) ==
    IF S = {} THEN <<>>
    ELSE LET m == CHOOSE x \in S : \A y \in S : x <= y
         IN <<m>> \o SortedMonths(S \ {m})

\* Qty column of the rows of sku in the months S, sorted by Date
QtySeq(r, sku, S) ==
    LET ms == SortedMonths(S) IN [i \in 1..Len(ms) |-> r[sku][ms[i]]]

Positive(q) == q > 0
Positives(s) == SelectSeq(s, Positive)

RECURSIVE SumSeq(_)
SumSeq(s) == IF s = <<>> THEN 0 ELSE Head(s) + SumSeq(Tail(s))

RECURSIVE MaxSeq(_)
MaxSeq(s) == IF Len(s) = 1 THEN s[1] ELSE Max2(Head(s), MaxSeq(Tail(s)))

LessThan(a, b) == a < b

\* Series.median(), in halves; s is not empty
Median(s) ==
    LET o == SortSeq(s, LessThan)
        n == Len(o)
    IN IF n % 2 = 1 THEN 2 * o[(n + 1) \div 2]
       ELSE o[n \div 2] + o[(n \div 2) + 1]

\* Series.tail(k)
TailN(s, k) == SubSeq(s, Max2(1, Len(s) - k + 1), Len(s))

\* max((len(list(g)) for v,g in itertools.groupby(arr>0) if v), default=0)
RECURSIVE RunScan(_, _, _)
RunScan(s, cur, best) ==
    IF s = <<>> THEN Max2(cur, best)
    ELSE IF Head(s) > 0 THEN RunScan(Tail(s), cur + 1, best)
         ELSE RunScan(Tail(s), 0, Max2(cur, best))
MaxRun(s) == RunScan(s, 0, 0)

\* ------------------------------------------------------------ section 1
\* freq: the (SKU, year) counts of rows with Hist_Value > 0, unstacked over
\* the years 2024..2026; a SKU with no such row has no row in df_freq
FreqCount(r, sku, yr) ==
    Cardinality({m \in DOMAIN r[sku] : r[sku][m] > 0 /\ YearOf(m) = yr})
HitSKUs(r) == {s \in SKUs : \E m \in DOMAIN r[s] : r[s][m] > 0}
DfFreq(r) == [s \in HitSKUs(r) |-> [y \in {2024, 2025, 2026} |-> FreqCount(r, s, y)]]

\* ------------------------------------------------------------ section 2
\* first_run = RUN_DATE.replace(day=1): the time of day is kept
FirstRun(rd) == 2 * rd.month + rd.tod
\* hist = df[df.Date <= first_run], as the months of each SKU's rows
Hist(r, fr) == [s \in SKUs |-> {m \in DOMAIN r[s] : Date(m) <= fr}]
HistSKUs(h) == {s \in SKUs : h[s] # {}}

\* ------------------------------------------------------------ section 3
\* trail = hist[hist.Date.dt.year == 2024]
Trail(h, s) == {m \in h[s] : YearOf(m) = 2024}
TrailSKUs(h) == {s \in SKUs : Trail(h, s) # {}}

\* the aggregation with median_qty taken over all quantities, zeros included
Agg_allmedian(q) ==
    LET pos == Positives(q)
        hits == Len(pos)
    IN [hits       |-> hits,
        periods    |-> Len(q),
        median_qty |-> Median(q),
        max_qty    |-> MaxSeq(q),
        total_qty  |-> SumSeq(q),
        hit_ratio  |-> [num |-> hits, den |-> Len(q)],
        adi        |-> [num |-> Len(q), den |-> IF hits = 0 THEN 1 ELSE hits]]

\* the aggregates of one SKU's 2024 Qty series q (not empty), with
\* hit_ratio and adi as fractions
Agg(q) ==
    LET pos == Positives(q)
        hits == Len(pos)
    IN [hits       |-> hits,
        periods    |-> Len(q),
        median_qty |-> IF hits > 0 THEN Median(pos) ELSE 0,
        max_qty    |-> MaxSeq(q),
        total_qty  |-> SumSeq(q),
        hit_ratio  |-> [num |-> hits, den |-> Len(q)],
        adi        |-> [num |-> Len(q), den |-> IF hits = 0 THEN 1 ELSE hits]]

\* row label of a SKU's row after reset_index(): its position among the
\* group keys
RowLabel(keys, s) ==
    Cardinality({i \in 1..Len(SkuOrder) :
                   /\ SkuOrder[i] \in keys
                   /\ \E j \in 1..Len(SkuOrder) : SkuOrder[j] = s /\ i < j})
\* an integer row label never equals a SKU key, which is a string
LabelEquals(label, key) == FALSE
\* stats['max_run'] = <Series indexed by SKU>: the assignment aligns the
\* series on the frame's index, the row labels, and leaves NaN where the
\* series has no such label
MaxRunColumn(r, h, s) ==
    IF \E k \in TrailSKUs(h) : LabelEquals(RowLabel(TrailSKUs(h), s), k)
    THEN LET k == CHOOSE k \in TrailSKUs(h) :
                      LabelEquals(RowLabel(TrailSKUs(h), s), k)
         IN Num(MaxRun(QtySeq(r, k, Trail(h, k))))
    ELSE NaN

\* tail = hist[(hist.Date >= first_run - 3 months) & (hist.Date <= first_run)]
TailMonths(h, fr, s) ==
    {m \in h[s] : Date(m) >= AddMonths(fr, -3) /\ Date(m) <= fr}
\* (s>0).all() per SKU of tail, left-merged, NaN filled with False
Last3Tail(r, h, fr, s) ==
    IF TailMonths(h, fr, s) = {} THEN FALSE
    ELSE \A m \in TailMonths(h, fr, s) : r[s][m] > 0

\* r.hit_ratio >= CONT_RATIO
RatioAtLeast(f, pct) == f.num * 100 >= pct * f.den
\* r.max_qty/r.median_qty <= 3 and > 3, median_qty in halves and not 0
SpikeRatioLe3(r) == 2 * r.max_qty <= 3 * r.median_qty
\* NaN <= 3 is False
FloatLe(x, n) == ~x.nan /\ x.v <= n

TrueBuyOut == "True Buy-Out"
EmergingBuyOut == "Emerging Buy-Out"
HighRunRate == "High Run-Rate"
SeasonalBuyOut == "Seasonal Buy-Out"
SpikeDriven == "Spike-Driven Buy-Out"
IntermittentBuyOut == "Intermittent Buy-Out"
Regimes == {TrueBuyOut, EmergingBuyOut, HighRunRate, SeasonalBuyOut,
            SpikeDriven, IntermittentBuyOut}
\* the outcome of classify when a division by median_qty = 0 is evaluated
ZeroDivision == "ZeroDivisionError"

\* classify with the High Run-Rate rule tried before the Emerging rule
classify_swapped(r) ==
    IF (r.hits <= 2) \/ (r.total_qty < 10) THEN TrueBuyOut
    ELSE IF RatioAtLeast(r.hit_ratio, CONT_RATIO) THEN HighRunRate
    ELSE IF (r.hits < MIN_HITS) /\ r.last3_tail THEN EmergingBuyOut
    ELSE IF 4 <= r.hits /\ r.hits <= 9 /\ r.median_qty = 0 THEN ZeroDivision
    ELSE IF 4 <= r.hits /\ r.hits <= 9 /\ SpikeRatioLe3(r) /\ FloatLe(r.max_run, 3)
         THEN SeasonalBuyOut
    ELSE IF 1 <= r.hits /\ r.hits <= 3 /\ r.median_qty = 0 THEN ZeroDivision
    ELSE IF 1 <= r.hits /\ r.hits <= 3 /\ ~SpikeRatioLe3(r) THEN SpikeDriven
    ELSE IntermittentBuyOut

classify(r) ==
    IF (r.hits <= 2) \/ (r.total_qty < 10) THEN TrueBuyOut
    ELSE IF (r.hits < MIN_HITS) /\ r.last3_tail THEN EmergingBuyOut
    ELSE IF RatioAtLeast(r.hit_ratio, CONT_RATIO) THEN HighRunRate
    ELSE IF 4 <= r.hits /\ r.hits <= 9 /\ r.median_qty = 0 THEN ZeroDivision
    ELSE IF 4 <= r.hits /\ r.hits <= 9 /\ SpikeRatioLe3(r) /\ FloatLe(r.max_run, 3)
         THEN SeasonalBuyOut
    ELSE IF 1 <= r.hits /\ r.hits <= 3 /\ r.median_qty = 0 THEN ZeroDivision
    ELSE IF 1 <= r.hits /\ r.hits <= 3 /\ ~SpikeRatioLe3(r) THEN SpikeDriven
    ELSE IntermittentBuyOut

\* one row of stats: the aggregates, max_run, last3_tail and Business Rule
StatsRow(q, maxrun, last3) ==
    LET row == Agg(q) @@ [max_run |-> maxrun, last3_tail |-> last3]
    IN row @@ [Business_Rule |-> classify(row)]

Stats(r, h, fr) ==
    [s \in TrailSKUs(h) |->
        StatsRow(QtySeq(r, s, Trail(h, s)), MaxRunColumn(r, h, s),
                 Last3Tail(r, h, fr, s))]

\* ------------------------------------------------------------ safety stock
\* wins_med: median of the last 12 nonzero 2024 quantities, 0 if none
WinsMedOf(q) ==
    IF Positives(q) # <<>> THEN Median(TailN(Positives(q), 12)) ELSE 0
WinsMed(r, h) == [s \in TrailSKUs(h) |-> WinsMedOf(QtySeq(r, s, Trail(h, s)))]

\* numpy round(0) of n/d for n >= 0, d > 0: ties go to the even integer
RoundHalfEven(n, d) ==
    LET q == n \div d
        rem == n % d
    IN IF 2 * rem < d THEN q
       ELSE IF 2 * rem > d THEN q + 1
       ELSE IF q % 2 = 0 THEN q ELSE q + 1

\* Leadtime Level of a SKU after the left merge, NaN filled with 0 (days)
LeadDays(l, s) == IF s \in DOMAIN l THEN l[s] ELSE 0
\* (Median12 * Leadtime_Months).round(0).astype(int): Median12 in halves,
\* Leadtime_Months = Leadtime_Days / 30
BaseSafetyStock(med12, days) == RoundHalfEven(med12 * days, 2 * 30)

OneOffSkus(f) ==
    {s \in DOMAIN f : f[s][2024] <= 2 /\ f[s][2025] = 0 /\ f[s][2026] = 0}

\* the ceiling left out
CeilSafetyStock_none(rule, ss, max_qty) == ss
\* the zero-out left out
ZeroOutSafetyStock_skipped(s, oneoff, ss) == ss

\* cap at the largest month for True Buy-Outs
CeilSafetyStock(rule, ss, max_qty) ==
    IF rule = TrueBuyOut THEN Min2(ss, max_qty) ELSE ss
\* zero-out for one-off SKUs, applied last
ZeroOutSafetyStock(s, oneoff, ss) == IF s \in oneoff THEN 0 ELSE ss

FinalSafetyStock(s, row, med12, days, oneoff) ==
    ZeroOutSafetyStock(s, oneoff,
        CeilSafetyStock(row.Business_Rule, BaseSafetyStock(med12, days),
                        row.max_qty))

\* stats with the columns Median12, Leadtime_Days and Safety Stock
WithSafetyStock(st, wm, l, oneoff) ==
    [s \in DOMAIN st |->
        st[s] @@ [Median12 |-> wm[s],
                  Leadtime_Days |-> LeadDays(l, s),
                  Safety_Stock |-> FinalSafetyStock(s, st[s], wm[s],
                                                    LeadDays(l, s), oneoff)]]

\* an inner merge: SKUs without a stats row are dropped
Completed_inner(h, st) ==
    [s \in HistSKUs(h) \cap DOMAIN st |->
        [Business_Rule |-> st[s].Business_Rule,
         Safety_Stock |-> st[s].Safety_Stock]]

\* all_skus left-merged with stats; Business Rule and Safety Stock filled
Completed(h, st) ==
    [s \in HistSKUs(h) |->
        IF s \in DOMAIN st
        THEN [Business_Rule |-> st[s].Business_Rule,
              Safety_Stock |-> st[s].Safety_Stock]
        ELSE [Business_Rule |-> TrueBuyOut, Safety_Stock |-> 0]]
CatMap(t) == [s \in DOMAIN t |-> t[s].Business_Rule]

\* ------------------------------------------------------------ section 4
LastRun(fr) == AddMonths(fr, HORIZON - 1)
\* the range started one month late
DateRange_next(start, end) ==
    [i \in 1..(((end - start) \div 2) + 1) |-> AddMonths(start, i)]

\* pd.date_range(start, end, freq='MS') for a start on day 1: start, then
\* month by month while <= end, the time of day kept
DateRange(start, end) ==
    [i \in 1..(((end - start) \div 2) + 1) |-> AddMonths(start, i - 1)]

\* what the forecasting capability returns for one step of one series:
\* a float in halves, by the step
RawVals == <<200, -10, 7, 0>>
ModelValue(j) == RawVals[((j - 1) % Len(RawVals)) + 1]
\* the last month of a SKU's series
LastMonth(h, s) == CHOOSE m \in h[s] : \A x \in h[s] : x <= m
\* sf.forecast(df=series of skus, h=HORIZON): per SKU the HORIZON months
\* after the last month of its series, at midnight
ModelForecast(skus, h) ==
    [k \in {<<s, Date(LastMonth(h, s) + j)>> : s \in skus, j \in 1..HORIZON} |->
        Num(ModelValue((k[2] \div 2) - LastMonth(h, k[1])))]
\* wins_med.get(sku, 0)
WinsMedGet(wm, s) == IF s \in DOMAIN wm THEN wm[s] ELSE 0
\* the except branch: every SKU, every period of the run's horizon
FallbackForecast(skus, fr, wm) ==
    LET periods == DateRange(fr, LastRun(fr))
    IN [k \in {<<s, periods[i]>> : s \in skus, i \in 1..Len(periods)} |->
           Num(WinsMedGet(wm, k[1]))]

Outcomes == {"ok", "NotImplementedError", "Exception"}
\* safe_forecast(model, skus, col) when the capability ends with `out`
safe_forecast(skus, out, h, fr, wm) ==
    IF skus = {} THEN [raised |-> FALSE, recs |-> <<>>]
    ELSE IF out = "ok"
         THEN [raised |-> FALSE, recs |-> ModelForecast(skus, h)]
    ELSE IF out = "NotImplementedError"
         THEN [raised |-> FALSE, recs |-> FallbackForecast(skus, fr, wm)]
    ELSE [raised |-> TRUE, recs |-> <<>>]

EtsSkus(cm) == {s \in DOMAIN cm : cm[s] = HighRunRate}
TsbSkus(cm) == {s \in DOMAIN cm : cm[s] \in {SpikeDriven, IntermittentBuyOut}}

\* left merge of a forecast table on (SKU, ds)
Lookup(fc, s, ds) == IF <<s, ds>> \in DOMAIN fc THEN fc[<<s, ds>>] ELSE NaN
\* left merge of wins_med as Median12
Median12Of(wm, s) == IF s \in DOMAIN wm THEN Num(wm[s]) ELSE NaN

\* a < b on floats: False when either is NaN
FloatLt(a, b) == ~a.nan /\ ~b.nan /\ a.v < b.v
\* Python's min(a, b, c): the first argument, replaced by each later one
\* that compares less
PyMin3(a, b, c) ==
    LET m1 == IF FloatLt(b, a) THEN b ELSE a
    IN IF FloatLt(c, m1) THEN c ELSE m1
\* x or 0: NaN is truthy, 0.0 is not
OrZero(x) == IF ~x.nan /\ x.v = 0 THEN Num(0) ELSE x
Times(x, k) == IF x.nan THEN NaN ELSE Num(x.v * k)

\* the cap without its last*CAP_MULT term
apply_override_nolast(rule, r, last) ==
    IF rule \in {TrueBuyOut, EmergingBuyOut} THEN Num(0)
    ELSE LET med12 == OrZero(r.Median12)
             base == IF rule = HighRunRate THEN r.ets
                     ELSE IF rule = SeasonalBuyOut THEN Num(last)
                     ELSE r.tsb
             capv == IF rule = SpikeDriven THEN Times(med12, 2) ELSE med12
         IN IF rule \notin {TrueBuyOut, SeasonalBuyOut}
            THEN PyMin3(base, Times(capv, CAP_MULT), Times(capv, CAP_MULT))
            ELSE base

\* Emerging Buy-Out given a base of its own and capped, not zeroed
apply_override_emerging(rule, r, last) ==
    IF rule = TrueBuyOut THEN Num(0)
    ELSE LET med12 == OrZero(r.Median12)
             base == IF rule = HighRunRate THEN r.ets
                     ELSE IF rule \in {SeasonalBuyOut, EmergingBuyOut} THEN Num(last)
                     ELSE r.tsb
             capv == IF rule = SpikeDriven THEN Times(med12, 2) ELSE med12
         IN IF rule \notin {TrueBuyOut, SeasonalBuyOut}
            THEN PyMin3(base, Times(capv, CAP_MULT), Num(last * CAP_MULT))
            ELSE base

\* the cap applied to High Run-Rate only
apply_override_hrr_only(rule, r, last) ==
    IF rule \in {TrueBuyOut, EmergingBuyOut} THEN Num(0)
    ELSE LET med12 == OrZero(r.Median12)
             base == IF rule = HighRunRate THEN r.ets
                     ELSE IF rule = SeasonalBuyOut THEN Num(last)
                     ELSE r.tsb
             capv == IF rule = SpikeDriven THEN Times(med12, 2) ELSE med12
         IN IF rule = HighRunRate
            THEN PyMin3(base, Times(capv, CAP_MULT), Num(last * CAP_MULT))
            ELSE base

apply_override(rule, r, last) ==
    IF rule \in {TrueBuyOut, EmergingBuyOut} THEN Num(0)
    ELSE LET med12 == OrZero(r.Median12)
             base == IF rule = HighRunRate THEN r.ets
                     ELSE IF rule = SeasonalBuyOut THEN Num(last)
                     ELSE r.tsb
             capv == IF rule = SpikeDriven THEN Times(med12, 2) ELSE med12
         IN IF rule \notin {TrueBuyOut, SeasonalBuyOut}
            THEN PyMin3(base, Times(capv, CAP_MULT), Num(last * CAP_MULT))
            ELSE base

GridRow(s, ds, fe, ft, wm, cm) ==
    LET r == [SKU |-> s, ds |-> ds, ets |-> Lookup(fe, s, ds),
              tsb |-> Lookup(ft, s, ds), Median12 |-> Median12Of(wm, s)]
    IN r @@ [Override |-> fillna0(apply_override(cm[s], r, WinsMedGet(wm, s)))]

Grid(cm, fr, fe, ft, wm) ==
    LET periods == DateRange(fr, LastRun(fr))
    IN [s \in DOMAIN cm |->
           [i \in 1..Len(periods) |-> GridRow(s, periods[i], fe, ft, wm, cm)]]

\* ------------------------------------------------------------ the run
Init ==
    /\ pc = "read"
    /\ RUN_DATE \in RunDates
    /\ raw = <<>>
    /\ df_freq = <<>>
    /\ first_run = 0
    /\ hist = <<>>
    /\ stats = <<>>
    /\ lead = <<>>
    /\ wins_med = <<>>
    /\ one_off_skus = {}
    /\ table = <<>>
    /\ cat_map = <<>>
    /\ outcome = [col \in {"ets", "tsb"} |-> "none"]
    /\ fc_ets = <<>>
    /\ fc_tsb = <<>>
    /\ grid = <<>>
    /\ AdjusterIdle

\* section 1: read raw, annual frequencies
ReadRaw ==
    /\ pc = "read"
    /\ \E r \in RawTables :
          /\ raw' = r
          /\ df_freq' = DfFreq(r)
    /\ pc' = "prep"
    /\ UNCHANGED <<RUN_DATE, first_run, hist, stats, lead, wins_med,
                   one_off_skus, table, cat_map, outcome, fc_ets, fc_tsb, grid>>
    /\ UNCHANGED adjVars

\* section 2: run month and history
PrepHistory ==
    /\ pc = "prep"
    /\ first_run' = FirstRun(RUN_DATE)
    /\ hist' = Hist(raw, FirstRun(RUN_DATE))
    /\ pc' = "segment"
    /\ UNCHANGED <<RUN_DATE, raw, df_freq, stats, lead, wins_med,
                   one_off_skus, table, cat_map, outcome, fc_ets, fc_tsb, grid>>
    /\ UNCHANGED adjVars

\* section 3: statistics and Business Rule
Segment ==
    /\ pc = "segment"
    /\ stats' = Stats(raw, hist, first_run)
    /\ pc' = "safety"
    /\ UNCHANGED <<RUN_DATE, raw, df_freq, first_run, hist, lead, wins_med,
                   one_off_skus, table, cat_map, outcome, fc_ets, fc_tsb, grid>>
    /\ UNCHANGED adjVars

\* lead times, Median12, Safety Stock, ceiling and zero-out
SafetyStock ==
    /\ pc = "safety"
    /\ \E l \in LeadTables :
          /\ lead' = l
          /\ wins_med' = WinsMed(raw, hist)
          /\ one_off_skus' = OneOffSkus(df_freq)
          /\ stats' = WithSafetyStock(stats, WinsMed(raw, hist), l,
                                      OneOffSkus(df_freq))
    /\ pc' = "complete"
    /\ UNCHANGED <<RUN_DATE, raw, df_freq, first_run, hist, table, cat_map,
                   outcome, fc_ets, fc_tsb, grid>>
    /\ UNCHANGED adjVars

\* every SKU of hist gets a row
Complete ==
    /\ pc = "complete"
    /\ table' = Completed(hist, stats)
    /\ cat_map' = CatMap(Completed(hist, stats))
    /\ pc' = "ets"
    /\ UNCHANGED <<RUN_DATE, raw, df_freq, first_run, hist, stats, lead,
                   wins_med, one_off_skus, outcome, fc_ets, fc_tsb, grid>>
    /\ UNCHANGED adjVars

ForecastETS ==
    /\ pc = "ets"
    /\ \E out \in Outcomes :
          LET res == safe_forecast(EtsSkus(cat_map), out, hist, first_run,
                                   wins_med)
          IN /\ outcome' = [outcome EXCEPT !["ets"] =
                              IF EtsSkus(cat_map) = {} THEN "none" ELSE out]
             /\ fc_ets' = res.recs
             /\ pc' = IF res.raised THEN "aborted" ELSE "tsb"
    /\ UNCHANGED <<RUN_DATE, raw, df_freq, first_run, hist, stats, lead,
                   wins_med, one_off_skus, table, cat_map, fc_tsb, grid>>
    /\ UNCHANGED adjVars

ForecastTSB ==
    /\ pc = "tsb"
    /\ \E out \in Outcomes :
          LET res == safe_forecast(TsbSkus(cat_map), out, hist, first_run,
                                   wins_med)
          IN /\ outcome' = [outcome EXCEPT !["tsb"] =
                              IF TsbSkus(cat_map) = {} THEN "none" ELSE out]
             /\ fc_tsb' = res.recs
             /\ pc' = IF res.raised THEN "aborted" ELSE "grid"
    /\ UNCHANGED <<RUN_DATE, raw, df_freq, first_run, hist, stats, lead,
                   wins_med, one_off_skus, table, cat_map, fc_ets, grid>>
    /\ UNCHANGED adjVars

\* the grid of (SKU, period) rows and its Override column
BuildGrid ==
    /\ pc = "grid"
    /\ grid' = Grid(cat_map, first_run, fc_ets, fc_tsb, wins_med)
    /\ pc' = "done"
    /\ UNCHANGED <<RUN_DATE, raw, df_freq, first_run, hist, stats, lead,
                   wins_med, one_off_skus, table, cat_map, outcome, fc_ets,
                   fc_tsb>>
    /\ UNCHANGED adjVars

Next ==
    \/ ReadRaw
    \/ PrepHistory
    \/ Segment
    \/ SafetyStock
    \/ Complete
    \/ ForecastETS
    \/ ForecastTSB
    \/ BuildGrid

Spec == Init /\ [][Next]_vars

\* ------------------------------------------------------------ classify alone
\* SpecClassify: one statistics row, drawn from a 2024 series of at most
\* MaxTrail months, a last3_tail flag and a max_run column that is either
\* aligned (the run length) or not (NaN); the action applies classify
TrailSeries == UNION {[1..n -> Qtys] : n \in 1..MaxTrail}
InitClassify ==
    /\ pc = "row"
    /\ \E q \in TrailSeries, aligned \in BOOLEAN, last3 \in BOOLEAN :
          stats = [s \in {"A"} |->
                     Agg(q) @@ [max_run |-> IF aligned THEN Num(MaxRun(q)) ELSE NaN,
                                last3_tail |-> last3]]
    /\ RUN_DATE = [month |-> 11, tod |-> 0]
    /\ raw = <<>>
    /\ df_freq = <<>>
    /\ first_run = 0
    /\ hist = <<>>
    /\ lead = <<>>
    /\ wins_med = <<>>
    /\ one_off_skus = {}
    /\ table = <<>>
    /\ cat_map = <<>>
    /\ outcome = [col \in {"ets", "tsb"} |-> "none"]
    /\ fc_ets = <<>>
    /\ fc_tsb = <<>>
    /\ grid = <<>>
    /\ AdjusterIdle

\* stats['Business Rule'] = stats.apply(classify, axis=1)
Classify ==
    /\ pc = "row"
    /\ stats' = [s \in DOMAIN stats |->
                    stats[s] @@ [Business_Rule |-> classify(stats[s])]]
    /\ pc' = "classified"
    /\ UNCHANGED <<RUN_DATE, raw, df_freq, first_run, hist, lead, wins_med,
                   one_off_skus, table, cat_map, outcome, fc_ets, fc_tsb, grid>>
    /\ UNCHANGED adjVars

NextClassify == Classify

SpecClassify == InitClassify /\ [][NextClassify]_vars

\* ------------------------------------------------------------ the adjuster
\* Buyouts_Forecast_Adjuster.py, one action per section of the script.
\* Quantities of the sheet are integers; Override, yhat, Med12 and AdjQty are
\* floats held in sixteenths (the integer 16*x): the quartiles of integers
\* are exact in quarters, the clip bounds in eighths and the median of the
\* clipped values in sixteenths.
ADJ_HORIZON == 24
\* CONT_HIT = 0.80, in percent
CONT_HIT == 80
ADI_LIMIT == 9
ADJ_MIN_HITS == 4
ADJ_CAP_MULT == 1

\* month columns of the wide sheet: the last AdjTrail months of 2024 and
\* every month of 2025
SheetMonths == (12 - AdjTrail)..23
\* the columns that hold actuals: up to April 2025; later cells are empty
\* and read as 0 through fillna(0)
ActualMonths == (12 - AdjTrail)..15
\* RUN_DATE of the adjuster: in March or in April 2025
AdjRunMonths == {14, 15}
AdjRunDates == [month : AdjRunMonths, tod : {0, 1}]
SheetRow(a) == [m \in SheetMonths |-> IF m \in ActualMonths THEN a[m] ELSE 0]
BSheetRow == [m \in SheetMonths |-> IF m \in ActualMonths THEN 20 ELSE 0]
Sheets ==
    {[s \in SKUs |-> IF s = "A" THEN SheetRow(a) ELSE BSheetRow] :
        a \in [ActualMonths -> Qtys]}

\* Date.dt.month
MoOf(m) == (m % 12) + 1
\* first_run.year
RunYear(fr) == YearOf(fr \div 2)

\* hist = long[long.Date < first_run], as the months of each SKU's rows
AdjHist(d, fr) == [s \in DOMAIN d |-> {m \in DOMAIN d[s] : Date(m) < fr}]
\* fcst = long[long.Date >= first_run]
Fcst(d, fr, s) == {m \in DOMAIN d[s] : Date(m) >= fr}

\* trail = hist[hist.Date >= trail_start], trail_start = first_run - 12 months
AdjTrailMonths(h, fr, s) == {m \in h[s] : Date(m) >= AddMonths(fr, -12)}
\* seg: hits, periods, hit_ratio, adi, buyout, continuous of every SKU that
\* has a row in trail
SegRow(q) ==
    LET hits == Len(Positives(q))
        periods == Len(q)
        adiDen == IF hits = 0 THEN 1 ELSE hits
        buyout == (hits < ADJ_MIN_HITS) \/ (periods > ADI_LIMIT * adiDen)
    IN [hits |-> hits, periods |-> periods, buyout |-> buyout,
        continuous |-> ~buyout /\ (100 * hits >= CONT_HIT * periods)]
Seg(d, h, fr) ==
    [s \in {x \in DOMAIN h : AdjTrailMonths(h, fr, x) # {}} |->
        SegRow(QtySeq(d, s, AdjTrailMonths(h, fr, s)))]
Buyout(sg) == {s \in DOMAIN sg : sg[s].buyout}
Continuous(sg) == {s \in DOMAIN sg : sg[s].continuous}

\* the forecasting capability: what the two models return for step j of a
\* series, in sixteenths; k shifts the cycle of values
AdjVals == <<1600, 8, -80, 64>>
EtsValue(j, k) == AdjVals[((j + k) % Len(AdjVals)) + 1]
TsbValue(j, k) == AdjVals[((j + k + 1) % Len(AdjVals)) + 1]
FcShifts == {0, 1}

\* pick(row)
pick(s, ets, tsb, sg) ==
    IF s \in Continuous(sg) THEN ets
    ELSE IF s \in Buyout(sg) THEN 0
    ELSE tsb

\* fc_df = sf.forecast(df=series, h=HORIZON) with its yhat column: per SKU
\* of hist the HORIZON months after the last month of its series, at
\* midnight; yhat is pick(row), and 0.0 where ds == first_run
FcDf(h, fr, sg, k) ==
    [s \in {x \in DOMAIN h : h[x] # {}} |->
        [m \in (LastMonth(h, s) + 1)..(LastMonth(h, s) + ADJ_HORIZON) |->
            LET j == m - LastMonth(h, s)
            IN [ets |-> EtsValue(j, k), tsb |-> TsbValue(j, k),
                yhat |-> IF Date(m) = fr THEN 0
                         ELSE pick(s, EtsValue(j, k), TsbValue(j, k), sg)]]]

\* fcst.merge(fc_use, how="left", on=["SKU","Period"]) and
\* fcst["Override"] = fcst["yhat"].fillna(0.0)
OverrideOf(fc, s, m) ==
    IF s \in DOMAIN fc /\ m \in DOMAIN fc[s] THEN fc[s][m].yhat ELSE 0

\* last_year = hist[hist.Yr == first_run.year-1] pivoted: per SKU the Qty of
\* every calendar month Mo that has a row in last_year
LastYear(h, fr, s) == {m \in h[s] : YearOf(m) = RunYear(fr) - 1}
LyTbl(d, h, fr) ==
    [s \in {x \in DOMAIN h : LastYear(h, fr, x) # {}} |->
        [mo \in {MoOf(m) : m \in LastYear(h, fr, s)} |->
            d[s][CHOOSE m \in LastYear(h, fr, s) : MoOf(m) = mo]]]
\* ly_tbl.columns
LyColumns(ly) == UNION {DOMAIN ly[s] : s \in DOMAIN ly}

\* Series.quantile(q4/4) of the sorted values o, linear interpolation
Quantile(o, q4) ==
    LET pos == q4 * (Len(o) - 1)
        lo == (pos \div 4) + 1
        fr == pos % 4
    IN IF fr = 0 THEN 16 * o[lo]
       ELSE 16 * o[lo] + 4 * fr * (o[lo + 1] - o[lo])
\* Series.clip(lower, upper) of one value
Clip(x, lower, upper) == Min2(Max2(x, lower), upper)
\* wins_median(s)
wins_median(s) ==
    LET nz == TailN(Positives(s), 12)
    IN IF nz = <<>> THEN 0
       ELSE LET o == SortSeq(nz, LessThan)
                n == Len(o)
                q1 == Quantile(o, 1)
                med == Quantile(o, 2)
                q3 == Quantile(o, 3)
                iqr == q3 - q1
                c == [i \in 1..n |->
                        Clip(16 * o[i], med - (3 * iqr) \div 2,
                             med + (3 * iqr) \div 2)]
            IN IF n % 2 = 1 THEN c[(n + 1) \div 2]
               ELSE (c[n \div 2] + c[(n \div 2) + 1]) \div 2
\* med12 = hist.groupby("SKU")["Qty"].apply(wins_median)
Med12Tbl(d, h) ==
    [s \in {x \in DOMAIN h : h[x] # {}} |-> wins_median(QtySeq(d, s, h[s]))]

\* long after the concat, the merge of med12 and the AdjQty column: hist
\* rows have Override NaN and AdjQty = Qty, fcst rows AdjQty = Override
LongRow(d, h, fc, s, m) ==
    IF m \in h[s]
    THEN [Qty |-> d[s][m], Mo |-> MoOf(m), future |-> FALSE,
          Override |-> NaN, AdjQty |-> 16 * d[s][m]]
    ELSE [Qty |-> d[s][m], Mo |-> MoOf(m), future |-> TRUE,
          Override |-> Num(OverrideOf(fc, s, m)),
          AdjQty |-> OverrideOf(fc, s, m)]
Long(d, h, fc) ==
    [s \in DOMAIN d |-> [m \in DOMAIN d[s] |-> LongRow(d, h, fc, s, m)]]

\* cap_row without the last-year cap
cap_row_medonly(r, s, ly, md) == Min2(r.AdjQty, md[s] * ADJ_CAP_MULT)
\* cap_row(r): min(AdjQty, ly_cap, med_cap); ly_cap is np.inf when the
\* calendar month is no column of ly_tbl
cap_row(r, s, ly, md) ==
    LET med_cap == md[s] * ADJ_CAP_MULT
    IN IF r.Mo \in LyColumns(ly)
       THEN Min2(Min2(r.AdjQty, 16 * ly[s][r.Mo] * ADJ_CAP_MULT), med_cap)
       ELSE Min2(r.AdjQty, med_cap)
\* long.loc[future & (long.AdjQty < 1), "AdjQty"] = 0.0
ZeroSmall(x) == IF x < 16 THEN 0 ELSE x
\* the two assignments to the future rows of long
CapFuture(lg, ly, md) ==
    [s \in DOMAIN lg |->
        [m \in DOMAIN lg[s] |->
            IF lg[s][m].future
            THEN [lg[s][m] EXCEPT
                     !.AdjQty = ZeroSmall(cap_row(lg[s][m], s, ly, md))]
            ELSE lg[s][m]]]

bizIdle ==
    /\ raw = <<>>
    /\ df_freq = <<>>
    /\ stats = <<>>
    /\ lead = <<>>
    /\ wins_med = <<>>
    /\ one_off_skus = {}
    /\ table = <<>>
    /\ cat_map = <<>>
    /\ outcome = [col \in {"ets", "tsb"} |-> "none"]
    /\ fc_ets = <<>>
    /\ fc_tsb = <<>>
    /\ grid = <<>>
bizVars == <<raw, df_freq, stats, lead, wins_med, one_off_skus, table,
             cat_map, outcome, fc_ets, fc_tsb, grid>>

InitAdjuster ==
    /\ pc = "adj_read"
    /\ RUN_DATE \in AdjRunDates
    /\ first_run = 0
    /\ hist = <<>>
    /\ AdjusterIdle
    /\ bizIdle

\* read the sheet, melt it, split hist and fcst
AdjRead ==
    /\ pc = "adj_read"
    /\ \E d \in Sheets :
          /\ df' = d
          /\ first_run' = FirstRun(RUN_DATE)
          /\ hist' = AdjHist(d, FirstRun(RUN_DATE))
    /\ pc' = "adj_segment"
    /\ UNCHANGED <<RUN_DATE, seg, fc_df, ly_tbl, Med12, long>>
    /\ UNCHANGED bizVars

\* trailing-12 segmentation
AdjSegment ==
    /\ pc = "adj_segment"
    /\ seg' = Seg(df, hist, first_run)
    /\ pc' = "adj_forecast"
    /\ UNCHANGED <<RUN_DATE, first_run, hist, df, fc_df, ly_tbl, Med12, long>>
    /\ UNCHANGED bizVars

\* StatsForecast, pick, the run month set to zero
AdjForecast ==
    /\ pc = "adj_forecast"
    /\ \E k \in FcShifts : fc_df' = FcDf(hist, first_run, seg, k)
    /\ pc' = "adj_combine"
    /\ UNCHANGED <<RUN_DATE, first_run, hist, df, seg, ly_tbl, Med12, long>>
    /\ UNCHANGED bizVars

\* combine hist + fcst, last-year table, Med12, AdjQty
AdjCombine ==
    /\ pc = "adj_combine"
    /\ ly_tbl' = LyTbl(df, hist, first_run)
    /\ Med12' = Med12Tbl(df, hist)
    /\ long' = Long(df, hist, fc_df)
    /\ pc' = "adj_cap"
    /\ UNCHANGED <<RUN_DATE, first_run, hist, df, seg, fc_df>>
    /\ UNCHANGED bizVars

\* cap the future rows, zero what is below 1
AdjCap ==
    /\ pc = "adj_cap"
    /\ long' = CapFuture(long, ly_tbl, Med12)
    /\ pc' = "adj_done"
    /\ UNCHANGED <<RUN_DATE, first_run, hist, df, seg, fc_df, ly_tbl, Med12>>
    /\ UNCHANGED bizVars

NextAdjuster ==
    \/ AdjRead
    \/ AdjSegment
    \/ AdjForecast
    \/ AdjCombine
    \/ AdjCap

SpecAdjuster == InitAdjuster /\ [][NextAdjuster]_vars

\* ------------------------------------------------------------ claims
\* the six rules of the segmentation, in priority order, as predicates of a
\* statistics row
RegimeOrder == <<TrueBuyOut, EmergingBuyOut, HighRunRate, SeasonalBuyOut,
                 SpikeDriven, IntermittentBuyOut>>
RuleMatches(i, r) ==
    CASE i = 1 -> r.hits <= 2 \/ r.total_qty < 10
      [] i = 2 -> r.hits < 4 /\ r.last3_tail
      [] i = 3 -> 5 * r.hits >= 4 * r.periods
      [] i = 4 -> /\ r.hits >= 4 /\ r.hits <= 9
                  /\ r.median_qty > 0 /\ 2 * r.max_qty <= 3 * r.median_qty
                  /\ ~r.max_run.nan /\ r.max_run.v <= 3
      [] i = 5 -> /\ r.hits >= 1 /\ r.hits <= 3
                  /\ r.median_qty > 0 /\ 2 * r.max_qty > 3 * r.median_qty
      [] i = 6 -> TRUE
FirstMatch(r) == CHOOSE i \in 1..6 : RuleMatches(i, r) /\ \A j \in 1..(i - 1) : ~RuleMatches(j, r)

\* C1: classify returns exactly one of the six regime labels, the label of
\* the first rule that matches in the fixed order; hits <= 2 or
\* total_qty < 10 always gives True Buy-Out
C1_FirstMatchingRule ==
    pc = "classified" =>
        \A s \in DOMAIN stats :
            /\ stats[s].Business_Rule \in Regimes
            /\ stats[s].Business_Rule = RegimeOrder[FirstMatch(stats[s])]
            /\ (stats[s].hits <= 2 \/ stats[s].total_qty < 10)
                   => stats[s].Business_Rule = TrueBuyOut

\* a row that matches a later rule as well, labelled by the earlier one:
\* Emerging Buy-Out with a hit ratio that would make it High Run-Rate
C1_Witness ==
    /\ pc = "classified"
    /\ \E s \in DOMAIN stats :
          /\ stats[s].Business_Rule = EmergingBuyOut
          /\ RuleMatches(3, stats[s])

Capped == {HighRunRate, SpikeDriven, IntermittentBuyOut}
\* the table of regimes and safety stocks has been built
TableReady == pc \in {"ets", "tsb", "grid", "done", "aborted"}

\* the most recent nonzero observation of a SKU's trailing (2024) series,
\* 0 if there is none
LastKnownActual(s) ==
    LET pos == Positives(QtySeq(raw, s, Trail(hist, s)))
    IN IF pos = <<>> THEN 0 ELSE pos[Len(pos)]

\* C2 as claimed: for every capped regime and every future period the
\* override is at most last_known_actual x CAP_MULT, last_known_actual being
\* the SKU's most recent nonzero trailing observation
C2_CappedByLastActual ==
    pc = "done" =>
        \A s \in DOMAIN grid :
            cat_map[s] \in Capped =>
                \A i \in 1..Len(grid[s]) :
                    grid[s][i].Override.v <= 2 * LastKnownActual(s) * CAP_MULT

\* C2 amended: for every capped regime and every future period the override
\* is at most last x CAP_MULT, last being wins_med.get(SKU, 0), the median of
\* the SKU's nonzero 2024 quantities
C2_CappedByWinsMed ==
    pc = "done" =>
        \A s \in DOMAIN grid :
            cat_map[s] \in Capped =>
                \A i \in 1..Len(grid[s]) :
                    /\ ~grid[s][i].Override.nan
                    /\ grid[s][i].Override.v <= WinsMedGet(wins_med, s) * CAP_MULT

\* a Spike-Driven SKU whose model forecast is above its median and below
\* twice its median: last x CAP_MULT is the binding cap, and the override is
\* the median, which is not the SKU's most recent nonzero quantity
C2_Witness ==
    /\ pc = "done"
    /\ \E s \in DOMAIN grid : \E i \in 1..Len(grid[s]) :
          /\ cat_map[s] = SpikeDriven
          /\ ~grid[s][i].tsb.nan
          /\ grid[s][i].tsb.v > wins_med[s] * CAP_MULT
          /\ grid[s][i].tsb.v < 2 * wins_med[s] * CAP_MULT
          /\ grid[s][i].Override.v = wins_med[s] * CAP_MULT
          /\ LastKnownActual(s) * 2 # wins_med[s]

\* C3: for every (SKU, future period) the reported override is a defined
\* number >= 0, whatever the raw forecast value was
C3_OverrideNonNegative ==
    pc = "done" =>
        \A s \in DOMAIN grid : \A i \in 1..Len(grid[s]) :
            /\ ~grid[s][i].Override.nan
            /\ grid[s][i].Override.v >= 0

\* C4: for every SKU whose regime is True Buy-Out or Emerging Buy-Out the
\* override of every future period is exactly 0
C4_BuyOutOverrideZero ==
    pc = "done" =>
        \A s \in DOMAIN grid :
            cat_map[s] \in {TrueBuyOut, EmergingBuyOut} =>
                \A i \in 1..Len(grid[s]) : grid[s][i].Override = Num(0)

\* an Emerging Buy-Out SKU with a positive median and a full grid of zeros
C4_Witness ==
    /\ pc = "done"
    /\ \E s \in DOMAIN grid :
          /\ cat_map[s] = EmergingBuyOut
          /\ WinsMedGet(wins_med, s) > 0
          /\ Len(grid[s]) = HORIZON
          /\ \A i \in 1..Len(grid[s]) : grid[s][i].Override = Num(0)

\* the forecast table of a column and the SKUs it was asked for
FcOf(col) == IF col = "ets" THEN fc_ets ELSE fc_tsb
GroupOf(col) == IF col = "ets" THEN EtsSkus(cat_map) ELSE TsbSkus(cat_map)

\* C5 as claimed: every SKU of history has exactly HORIZON override rows,
\* one per period, the periods contiguous months of which the first is the
\* month after the run month, and the model forecasts are on those periods
C5_StartsMonthAfterRun ==
    pc = "done" =>
        /\ DOMAIN grid = HistSKUs(hist)
        /\ \A s \in DOMAIN grid :
              /\ Len(grid[s]) = HORIZON
              /\ \A i \in 1..Len(grid[s]) :
                    grid[s][i].ds = AddMonths(first_run, i)
        /\ \A col \in {"ets", "tsb"} : \A k \in DOMAIN FcOf(col) :
              \E i \in 1..HORIZON : k[2] = AddMonths(first_run, i)

\* C5 amended: every SKU of history has exactly HORIZON override rows, one
\* per period, the periods contiguous months of which the first is the run
\* month first_run itself and the last is last_run; the fallback forecasts
\* are on those same periods
C5_StartsAtRunMonth ==
    pc = "done" =>
        /\ DOMAIN grid = HistSKUs(hist)
        /\ \A s \in DOMAIN grid :
              /\ Len(grid[s]) = HORIZON
              /\ \A i \in 1..Len(grid[s]) :
                    grid[s][i].ds = AddMonths(first_run, i - 1)
              /\ grid[s][Len(grid[s])].ds = LastRun(first_run)
        /\ \A col \in {"ets", "tsb"} :
              outcome[col] = "NotImplementedError" =>
                  \A k \in DOMAIN FcOf(col) :
                      \E i \in 1..HORIZON : grid[k[1]][i].ds = k[2]

\* a finished run whose model forecast for a SKU begins the month after the
\* run month while the grid begins at the run month
C5_Witness ==
    /\ pc = "done"
    /\ \E s \in DOMAIN grid :
          /\ Len(grid[s]) = HORIZON
          /\ grid[s][1].ds = first_run
          /\ outcome["ets"] = "ok"
          /\ <<s, AddMonths(first_run, 1)>> \in DOMAIN fc_ets
          /\ <<s, first_run>> \notin DOMAIN fc_ets

\* rows of a SKU in raw with a positive quantity, in a year
HitMonths(s, yr) == {m \in DOMAIN raw[s] : raw[s][m] > 0 /\ YearOf(m) = yr}
OneOff(s) ==
    /\ Cardinality(HitMonths(s, 2024)) <= 2
    /\ HitMonths(s, 2025) = {}
    /\ HitMonths(s, 2026) = {}

\* C6: every one-off SKU (at most 2 hit months in 2024, none in 2025 and
\* 2026) has final safety stock 0, whatever the base formula and the True
\* Buy-Out ceiling give
C6_OneOffZero ==
    TableReady =>
        \A s \in DOMAIN table : OneOff(s) => table[s].Safety_Stock = 0

\* a one-off SKU whose base formula and ceiling are both positive
C6_Witness ==
    /\ TableReady
    /\ \E s \in DOMAIN table \cap DOMAIN stats :
          /\ OneOff(s)
          /\ BaseSafetyStock(stats[s].Median12, stats[s].Leadtime_Days) > 0
          /\ Min2(BaseSafetyStock(stats[s].Median12, stats[s].Leadtime_Days),
                  stats[s].max_qty) > 0
          /\ table[s].Safety_Stock = 0

\* the largest 2024 quantity of a SKU in history, 0 if it has no 2024 row
PeakQty(s) ==
    IF Trail(hist, s) = {} THEN 0
    ELSE LET m == CHOOSE m \in Trail(hist, s) :
                      \A x \in Trail(hist, s) : raw[s][x] <= raw[s][m]
         IN raw[s][m]

\* C7: for every True Buy-Out SKU the final safety stock lies between 0 and
\* the SKU's peak single-period quantity
C7_TrueBuyOutCeiling ==
    TableReady =>
        \A s \in DOMAIN table :
            table[s].Business_Rule = TrueBuyOut =>
                /\ 0 <= table[s].Safety_Stock
                /\ table[s].Safety_Stock <= PeakQty(s)

\* a True Buy-Out SKU, not one-off, whose base formula is above its peak
\* quantity: the safety stock is the peak quantity
C7_Witness ==
    /\ TableReady
    /\ \E s \in DOMAIN table \cap DOMAIN stats :
          /\ table[s].Business_Rule = TrueBuyOut
          /\ ~OneOff(s)
          /\ BaseSafetyStock(stats[s].Median12, stats[s].Leadtime_Days) > PeakQty(s)
          /\ table[s].Safety_Stock = PeakQty(s)
          /\ PeakQty(s) > 0

\* the fallback records of a column: every SKU of the group, every period of
\* the horizon, the SKU's trailing median or 0
IsFallback(col) ==
    /\ DOMAIN FcOf(col) =
          {<<s, AddMonths(first_run, i - 1)>> : s \in GroupOf(col), i \in 1..HORIZON}
    /\ \A k \in DOMAIN FcOf(col) :
          FcOf(col)[k] = Num(IF k[1] \in DOMAIN wins_med THEN wins_med[k[1]] ELSE 0)

\* C8: whenever the forecasting capability fails for a regime group,
\* safe_forecast does not raise and returns the fallback records
C8_FailureFallsBack ==
    \A col \in {"ets", "tsb"} :
        outcome[col] \in {"NotImplementedError", "Exception"} =>
            /\ pc # "aborted"
            /\ IsFallback(col)

\* C9: every SKU of history is in the regime/safety-stock table; one with
\* no statistics row is True Buy-Out with safety stock 0, one with no
\* lead-time row has safety stock 0
C9_TableComplete ==
    TableReady =>
        /\ DOMAIN table =
              {s \in SKUs : \E m \in DOMAIN raw[s] : Date(m) <= first_run}
        /\ \A s \in DOMAIN table :
              /\ s \notin DOMAIN stats =>
                    /\ table[s].Business_Rule = TrueBuyOut
                    /\ table[s].Safety_Stock = 0
              /\ s \notin DOMAIN lead => table[s].Safety_Stock = 0

\* one SKU of history without a statistics row, another with a positive
\* median and no lead-time row
C9_Witness ==
    /\ TableReady
    /\ \E s \in DOMAIN table : s \notin DOMAIN stats
    /\ \E s \in DOMAIN table \cap DOMAIN stats :
          /\ s \notin DOMAIN lead
          /\ stats[s].Median12 > 0
          /\ table[s].Safety_Stock = 0

\* C10: for every capped regime and every future period the override is at
\* most median12 x CAP_MULT, twice that for Spike-Driven Buy-Out
C10_CappedByMedian ==
    pc = "done" =>
        \A s \in DOMAIN grid :
            cat_map[s] \in Capped =>
                \A i \in 1..Len(grid[s]) :
                    /\ ~grid[s][i].Median12.nan
                    /\ grid[s][i].Override.v <=
                          grid[s][i].Median12.v * CAP_MULT
                             * (IF cat_map[s] = SpikeDriven THEN 2 ELSE 1)

\* a Spike-Driven or Intermittent SKU whose raw forecast is above its cap
C10_Witness ==
    /\ pc = "done"
    /\ \E s \in DOMAIN grid : \E i \in 1..Len(grid[s]) :
          /\ cat_map[s] \in {SpikeDriven, IntermittentBuyOut}
          /\ ~grid[s][i].tsb.nan
          /\ grid[s][i].tsb.v > 2 * grid[s][i].Median12.v * CAP_MULT
          /\ grid[s][i].Override.v > 0

\* the month of the year before the run year that has the calendar month of m
SameMonthLastYear(m) == 12 * (RunYear(first_run) - 1 - 2024) + (m % 12)
\* the winsorised median of the SKU's last 12 nonzero months of history
WinsMedianOf(s) == wins_median(QtySeq(df, s, hist[s]))

\* C11: in the forecast adjuster every future bucket (Date >= first_run) of
\* every SKU is written out with an adjusted quantity that is at most the
\* winsorised median of the SKU's last 12 nonzero months x CAP_MULT and, when
\* the same calendar month of the previous year is in the last-year table,
\* at most that month's quantity x CAP_MULT
C11_CappedByBoth ==
    pc = "adj_done" =>
        \A s \in DOMAIN long : \A m \in DOMAIN long[s] :
            Date(m) >= first_run =>
                /\ long[s][m].AdjQty <= WinsMedianOf(s) * ADJ_CAP_MULT
                /\ SameMonthLastYear(m) \in hist[s] =>
                      long[s][m].AdjQty
                          <= 16 * df[s][SameMonthLastYear(m)] * ADJ_CAP_MULT
\* a future bucket whose forecast is above both caps, whose last-year cap is
\* the tighter one, and that is written out at the last-year cap
C11_Witness ==
    /\ pc = "adj_done"
    /\ \E s \in DOMAIN long : \E m \in DOMAIN long[s] :
          /\ Date(m) >= first_run
          /\ SameMonthLastYear(m) \in hist[s]
          /\ 16 * df[s][SameMonthLastYear(m)] < WinsMedianOf(s)
          /\ long[s][m].Override.v > WinsMedianOf(s)
          /\ long[s][m].AdjQty = 16 * df[s][SameMonthLastYear(m)]
          /\ long[s][m].AdjQty >= 16

\* classify evaluates r.max_qty/r.median_qty: no earlier rule returned, and
\* the hits test in front of the division (Seasonal: 4..9, else Spike-Driven:
\* 1..3) let it through
ReachesRatio(r) ==
    /\ ~(r.hits <= 2 \/ r.total_qty < 10)
    /\ ~(r.hits < MIN_HITS /\ r.last3_tail)
    /\ ~RatioAtLeast(r.hit_ratio, CONT_RATIO)
    /\ 1 <= r.hits /\ r.hits <= 9

\* C12: classify never divides by a zero median: on every statistics row
\* built from quantities >= 0, median_qty > 0 whenever evaluation reaches a
\* max_qty/median_qty comparison, and no row's classification ends in a
\* division by zero; a row with hits = 0 has median_qty = 0, an average demand
\* interval equal to periods, and is labelled True Buy-Out
C12_NoZeroMedianDivision ==
    \A s \in DOMAIN stats :
        LET r == stats[s]
        IN /\ ReachesRatio(r) => r.median_qty > 0
           /\ r.hits = 0 =>
                 /\ r.median_qty = 0
                 /\ r.adi.den = 1 /\ r.adi.num = r.periods
           /\ pc = "classified" =>
                 /\ r.Business_Rule # ZeroDivision
                 /\ r.hits = 0 => r.Business_Rule = TrueBuyOut
\* a row whose classification went through both divisions and came out
\* Spike-Driven Buy-Out
C12_Witness ==
    /\ pc = "classified"
    /\ \E s \in DOMAIN stats :
          /\ ReachesRatio(stats[s])
          /\ stats[s].median_qty > 0
          /\ stats[s].Business_Rule = SpikeDriven

\* the three calendar months before the run month
Last3Periods == {(first_run \div 2) - k : k \in 1..3}
\* every one of them has a row of the SKU in raw, with a nonzero quantity
Last3AllHits(s) == \A m \in Last3Periods : m \in DOMAIN raw[s] /\ raw[s][m] > 0

\* C13: the recent-tail flag of a SKU is true exactly when all of its last 3
\* periods before the run date have a nonzero quantity (a missing or a zero
\* period makes it false), and the SKU is labelled Emerging Buy-Out exactly
\* when it is not True Buy-Out, has hits < MIN_HITS and each of those three
\* periods is a hit
C13_TailFlagIffLast3Hits ==
    \A s \in DOMAIN stats :
        /\ stats[s].last3_tail <=> Last3AllHits(s)
        /\ stats[s].Business_Rule = EmergingBuyOut <=>
              /\ ~(stats[s].hits <= 2 \/ stats[s].total_qty < 10)
              /\ stats[s].hits < MIN_HITS
              /\ Last3AllHits(s)

====
